---- MODULE Spec2Model ----
(***************************************************************************)
(* Model of backend/python/pdf_parser.py (EnhancedPDFParser): text         *)
(* acquisition page by page, the regular-expression pattern registry, the  *)
(* three validators, the best-match scan and the process_pdf pipeline.     *)
(*                                                                         *)
(* Strings are TLA+ strings; a character is a string of length one.        *)
(* Confidences are IEEE-754 binary64 values, kept exactly as the integer   *)
(* x * 2^56 written in five base-2^14 limbs, most significant first.       *)
(***************************************************************************)
EXTENDS Integers, Sequences, FiniteSets, TLC

(***************************************************************************)
(* Characters and Python string methods                                    *)
(***************************************************************************)
UpperLetters == "ABCDEFGHIJKLMNOPQRSTUVWXYZ"
LowerLetters == "abcdefghijklmnopqrstuvwxyz"
DigitChars == "0123456789"

Char(s, i) == SubSeq(s, i, i)

CharsOf(w) == {Char(w, i) : i \in 1..Len(w)}

Upper == CharsOf(UpperLetters)
Lower == CharsOf(LowerLetters)
Digit == CharsOf(DigitChars)
Space == {" ", "\t", "\n", "\r", "\f"}
Word == Upper \cup Lower \cup Digit \cup {"_"}

ToLower == [c \in Upper |-> Char(LowerLetters, CHOOSE i \in 1..26 : Char(UpperLetters, i) = c)]
ToUpper == [c \in Lower |-> Char(UpperLetters, CHOOSE i \in 1..26 : Char(LowerLetters, i) = c)]

SwapCase(c) == IF c \in Upper THEN ToLower[c] ELSE IF c \in Lower THEN ToUpper[c] ELSE c

Min(S) == CHOOSE x \in S : \A y \in S : x <= y
Max(S) == CHOOSE x \in S : \A y \in S : y <= x

\* str.strip()
Strip(s) ==
    LET kept == {i \in 1..Len(s) : Char(s, i) \notin Space}
    IN  IF kept = {} THEN "" ELSE SubSeq(s, Min(kept), Max(kept))

\* str.split(): the maximal runs of non-whitespace characters, in order
Split(s) ==
    LET starts == {i \in 1..Len(s) : Char(s, i) \notin Space /\ (i = 1 \/ Char(s, i - 1) \in Space)}
        ends == {i \in 1..Len(s) : Char(s, i) \notin Space /\ (i = Len(s) \/ Char(s, i + 1) \in Space)}
        Nth(S, k) == CHOOSE x \in S : Cardinality({y \in S : y < x}) = k - 1
    IN  [k \in 1..Cardinality(starts) |-> SubSeq(s, Nth(starts, k), Nth(ends, k))]

\* '\n'.join(parts)
RECURSIVE Join(_)
Join(parts) ==
    IF parts = <<>> THEN ""
    ELSE IF Len(parts) = 1 THEN parts[1]
    ELSE parts[1] \o "\n" \o Join(Tail(parts))

(***************************************************************************)
(* binary64 arithmetic                                                     *)
(***************************************************************************)
LimbBase == 2^14

\* carry propagation, least significant limb last
RECURSIVE Carry(_, _, _)
Carry(a, i, c) ==
    IF i = 0 THEN <<>>
    ELSE Append(Carry(a, i - 1, (a[i] + c) \div LimbBase), (a[i] + c) % LimbBase)

BigAdd(a, b) == Carry([i \in 1..5 |-> a[i] + b[i]], 5, 0)

RECURSIVE BigLess(_, _)
BigLess(a, b) ==
    /\ a # <<>>
    /\ \/ Head(a) < Head(b)
       \/ Head(a) = Head(b) /\ BigLess(Tail(a), Tail(b))

\* long division by a small divisor: <<quotient, remainder>>
RECURSIVE DivSmall(_, _, _, _)
DivSmall(a, d, i, r) ==
    IF i > Len(a) THEN <<<<>>, r>>
    ELSE LET cur == r * LimbBase + a[i]
             rest == DivSmall(a, d, i + 1, cur % d)
         IN  <<(<<cur \div d>>) \o rest[1], rest[2]>>

\* the unit in the last place of a value of this magnitude (53-bit significand)
Ulp(a) ==
    IF a[1] >= 1 THEN 16
    ELSE IF a[2] >= 8192 THEN 8
    ELSE IF a[2] >= 4096 THEN 4
    ELSE IF a[2] >= 2048 THEN 2
    ELSE 1

\* round-half-to-even of the exact value a + (num/den) to a multiple of Ulp(a)
RoundNearest(a, num, den) ==
    LET u == Ulp(a)
        low == a[5] % u
        down == [a EXCEPT ![5] = a[5] - low]
        up == Carry([down EXCEPT ![5] = down[5] + u], 5, 0)
        twice == 2 * (low * den + num)
        half == u * den
        odd == (a[5] \div u) % 2 = 1
    IN  IF twice < half THEN down
        ELSE IF twice > half THEN up
        ELSE IF odd THEN up ELSE down

\* the float a decimal literal n/d denotes
FromDecimal(n, d) ==
    LET q == DivSmall(<<n, 0, 0, 0, 0>>, d, 1, 0)
    IN  RoundNearest(q[1], q[2], d)

FZero == <<0, 0, 0, 0, 0>>
FOne == <<1, 0, 0, 0, 0>>

FAdd(a, b) == RoundNearest(BigAdd(a, b), 0, 1)

\* x / 2 (exact for every value the scores take)
FHalf(a) == DivSmall(a, 2, 1, 0)[1]

FLess(a, b) == BigLess(a, b)

FMin(a, b) == IF FLess(b, a) THEN b ELSE a

\* round(x, 2): the nearest hundredth of the exact value (ties to even),
\* converted back to a float
Hundredths(a) ==
    LET m == Carry([i \in 1..(6) |-> IF i = 1 THEN 0 ELSE a[i - 1] * 100], 6, 0)
        q == m[1] * LimbBase + m[2]
        rem == <<m[3], m[4], m[5], m[6]>>
        half == <<8192, 0, 0, 0>>
    IN  IF BigLess(rem, half) THEN q
        ELSE IF BigLess(half, rem) THEN q + 1
        ELSE IF q % 2 = 1 THEN q + 1 ELSE q

Round2(a) == FromDecimal(Hundredths(a), 100)

(***************************************************************************)
(* Regular expressions (the subset of Python's re the parser uses).        *)
(* A matcher state is <<next position, group 1 start, group 1 end>>; Run   *)
(* lists the states a pattern can end in, in backtracking order, so the    *)
(* head of the list is the match re finds.                                 *)
(***************************************************************************)
Lit(w) == <<"lit", w>>
In(S) == <<"in", S>>
NotIn(S) == <<"notin", S>>
Cat(rs) == <<"cat", rs>>
Alt(rs) == <<"alt", rs>>
Rep(r, lo, hi, greedy) == <<"rep", r, lo, hi, greedy>>
Star(r) == Rep(r, 0, -1, TRUE)
Plus(r) == Rep(r, 1, -1, TRUE)
LazyPlus(r) == Rep(r, 1, -1, FALSE)
Opt(r) == Rep(r, 0, 1, TRUE)
Times(r, n) == Rep(r, n, n, TRUE)
Group1(r) == <<"group1", r>>
Ahead(r) == <<"ahead", r>>
WordBoundary == <<"wordb">>
LineEnd == <<"eol">>
StringStart == <<"bos">>

NoFlags == [ignorecase |-> FALSE, multiline |-> FALSE]
IgnoreCaseMultiline == [ignorecase |-> TRUE, multiline |-> TRUE]
IgnoreCase == [ignorecase |-> TRUE, multiline |-> FALSE]

SameChar(a, b, ic) == a = b \/ (ic /\ SwapCase(a) = b)

SameText(a, b, ic) == \A i \in 1..Len(a) : SameChar(Char(a, i), Char(b, i), ic)

CharIn(c, S, ic) == c \in S \/ (ic /\ SwapCase(c) \in S)

\* does the one-character pattern r accept character c
Accepts(r, c, ic) == IF r[1] = "in" THEN CharIn(c, r[2], ic) ELSE ~CharIn(c, r[2], ic)

IsWordAt(s, i) == i >= 1 /\ i <= Len(s) /\ Char(s, i) \in Word

RECURSIVE Run(_, _, _, _)
RECURSIVE RunEach(_, _, _, _, _, _)
RECURSIVE RunCat(_, _, _, _, _)
RECURSIVE RunAlt(_, _, _, _, _, _)
RECURSIVE RunRep(_, _, _, _, _)
RECURSIVE RunRepEach(_, _, _, _, _, _, _)

\* a repetition of a one-character pattern: every admissible length, the
\* longest first when greedy, the shortest first when lazy
RunRepChar(r, fl, s, st) ==
    LET pos == st[1]
        room == Len(s) - pos + 1
        cap == IF r[4] = -1 \/ room < r[4] THEN room ELSE r[4]
        hi == CHOOSE n \in 0..cap :
                /\ n = cap \/ ~Accepts(r[2], Char(s, pos + n), fl.ignorecase)
                /\ \A j \in 0..(n - 1) : Accepts(r[2], Char(s, pos + j), fl.ignorecase)
    IN  IF hi < r[3] THEN <<>>
        ELSE [i \in 1..(hi - r[3] + 1) |->
                <<(IF r[5] THEN pos + hi - i + 1 ELSE pos + r[3] + i - 1), st[2], st[3]>>]

Run(r, fl, s, st) ==
    LET pos == st[1] IN
    CASE r[1] = "lit" ->
            LET e == pos + Len(r[2]) - 1
            IN  IF e <= Len(s) /\ SameText(r[2], SubSeq(s, pos, e), fl.ignorecase)
                THEN <<<<e + 1, st[2], st[3]>>>> ELSE <<>>
      [] r[1] \in {"in", "notin"} ->
            IF pos <= Len(s) /\ Accepts(r, Char(s, pos), fl.ignorecase)
            THEN <<<<pos + 1, st[2], st[3]>>>> ELSE <<>>
      [] r[1] = "cat" -> RunCat(r[2], 1, fl, s, <<st>>)
      [] r[1] = "alt" -> RunAlt(r[2], fl, s, st, 1, Len(r[2]))
      [] r[1] = "rep" ->
            IF r[2][1] \in {"in", "notin"} THEN RunRepChar(r, fl, s, st)
            ELSE RunRep(r, fl, s, st, 0)
      [] r[1] = "group1" ->
            LET ends == Run(r[2], fl, s, st)
            IN  [i \in 1..Len(ends) |-> <<ends[i][1], pos, ends[i][1]>>]
      [] r[1] = "ahead" ->
            IF Run(r[2], fl, s, st) # <<>> THEN <<st>> ELSE <<>>
      [] r[1] = "wordb" ->
            IF IsWordAt(s, pos - 1) # IsWordAt(s, pos) THEN <<st>> ELSE <<>>
      [] r[1] = "eol" ->
            IF \/ pos = Len(s) + 1
               \/ pos = Len(s) /\ Char(s, pos) = "\n"
               \/ fl.multiline /\ pos <= Len(s) /\ Char(s, pos) = "\n"
            THEN <<st>> ELSE <<>>
      [] r[1] = "bos" ->
            IF pos = 1 THEN <<st>> ELSE <<>>

\* r continued from each of the states sts[lo..hi], results in the order of sts
RunEach(r, fl, s, sts, lo, hi) ==
    IF lo > hi THEN <<>>
    ELSE IF lo = hi THEN Run(r, fl, s, sts[lo])
    ELSE LET mid == (lo + hi) \div 2
         IN  RunEach(r, fl, s, sts, lo, mid) \o RunEach(r, fl, s, sts, mid + 1, hi)

\* the items rs[k..] continued from each of the states sts
RunCat(rs, k, fl, s, sts) ==
    IF k > Len(rs) \/ sts = <<>> THEN sts
    ELSE RunCat(rs, k + 1, fl, s, RunEach(rs[k], fl, s, sts, 1, Len(sts)))

RunAlt(rs, fl, s, st, lo, hi) ==
    IF lo > hi THEN <<>>
    ELSE IF lo = hi THEN Run(rs[lo], fl, s, st)
    ELSE LET mid == (lo + hi) \div 2
         IN  RunAlt(rs, fl, s, st, lo, mid) \o RunAlt(rs, fl, s, st, mid + 1, hi)

\* a repetition after n iterations: one more iteration is tried before
\* stopping when greedy, after it when lazy
RunRep(r, fl, s, st, n) ==
    LET next == IF r[4] = -1 \/ n < r[4] THEN Run(r[2], fl, s, st) ELSE <<>>
        more == RunRepEach(r, fl, s, st, n, next, 1)
        stop == IF n >= r[3] THEN <<st>> ELSE <<>>
    IN  IF r[5] THEN more \o stop ELSE stop \o more

RunRepEach(r, fl, s, st, n, sts, i) ==
    IF i > Len(sts) THEN <<>>
    ELSE (IF sts[i][1] > st[1] THEN RunRep(r, fl, s, sts[i], n + 1) ELSE <<>>)
         \o RunRepEach(r, fl, s, st, n, sts, i + 1)

\* re.finditer: the non-overlapping matches from left to right, each as
\* [group0, group1]
RECURSIVE FindIterFrom(_, _, _, _, _)
FindIterFrom(r, fl, s, starts, from) ==
    LET later == {i \in starts : i >= from}
    IN  IF later = {} THEN <<>>
        ELSE LET i == Min(later)
                 m == Head(Run(r, fl, s, <<i, 0, 0>>))
             IN  <<[group0 |-> SubSeq(s, i, m[1] - 1),
                    group1 |-> SubSeq(s, m[2], m[3] - 1)]>>
                 \o FindIterFrom(r, fl, s, starts, IF m[1] > i THEN m[1] ELSE i + 1)

\* starts: the positions at which the pattern matches
FindIter(r, fl, s) ==
    LET starts == {i \in 1..(Len(s) + 1) : Run(r, fl, s, <<i, 0, 0>>) # <<>>}
    IN  FindIterFrom(r, fl, s, starts, 1)

\* re.search(...) is not None
Search(r, fl, s) == \E i \in 1..(Len(s) + 1) : Run(r, fl, s, <<i, 0, 0>>) # <<>>

\* re.match(...) is not None
Match(r, fl, s) == Run(r, fl, s, <<1, 0, 0>>) # <<>>

\* re.sub(r'\D', '', s)
RECURSIVE DigitsBetween(_, _, _)
DigitsBetween(s, lo, hi) ==
    IF lo > hi THEN ""
    ELSE IF lo = hi THEN (IF Char(s, lo) \in Digit THEN Char(s, lo) ELSE "")
    ELSE LET mid == (lo + hi) \div 2
         IN  DigitsBetween(s, lo, mid) \o DigitsBetween(s, mid + 1, hi)

DigitsOnly(s) == DigitsBetween(s, 1, Len(s))

(***************************************************************************)
(* _initialize_patterns: the pattern registry                              *)
(***************************************************************************)
WS == In(Space)
NotNewline == NotIn({"\n"})
D == In(Digit)
Sep == In({"-", ".", " ", "\t", "\n", "\r", "\f"})
PhoneChars == In({"+", "(", ")", "-"} \cup Digit \cup Space)
StreetChars == In(Upper \cup Lower \cup Digit \cup Space \cup {",", ".", "-"})

Rule(pattern, base_confidence) == [pattern |-> pattern, base_confidence |-> base_confidence]

\* <label>\s*:\s*([^\n]+)
LabeledLine(label) ==
    Cat(<<Lit(label), Star(WS), Lit(":"), Star(WS), Group1(Plus(NotNewline))>>)

\* <label>\s*:\s*([\+\d\s\(\)-]+)
LabeledPhone(label) ==
    Cat(<<label, Star(WS), Lit(":"), Star(WS), Group1(Plus(PhoneChars))>>)

\* <label>\s*:\s*([^\n]+?)(?=\s*Role\s*:|$|\n)
LabeledAddress(label) ==
    Cat(<<Lit(label), Star(WS), Lit(":"), Star(WS), Group1(LazyPlus(NotNewline)),
          Ahead(Alt(<<Cat(<<Star(WS), Lit("Role"), Star(WS), Lit(":")>>), LineEnd, Lit("\n")>>))>>)

\* \b\d+\s+[A-Za-z0-9\s,.-]+(?:Avenue|Lane|Road|Boulevard|Drive|Street|Ave|Ln|Rd|Blvd|Dr|St)\.?
StreetPhrase ==
    <<WordBoundary, Plus(D), Plus(WS), Plus(StreetChars),
      Alt(<<Lit("Avenue"), Lit("Lane"), Lit("Road"), Lit("Boulevard"), Lit("Drive"), Lit("Street"),
            Lit("Ave"), Lit("Ln"), Lit("Rd"), Lit("Blvd"), Lit("Dr"), Lit("St")>>),
      Opt(Lit("."))>>

\* \d{3}[-.\s]?\d{3}[-.\s]?\d{4}
DigitGroups == <<Times(D, 3), Opt(Sep), Times(D, 3), Opt(Sep), Times(D, 4)>>

patterns ==
    [name |->
        [labeled |-> <<
            Rule(LabeledLine("Name"), FromDecimal(9, 10)),
            Rule(LabeledLine("Full Name"), FromDecimal(9, 10)),
            Rule(LabeledLine("Customer Name"), FromDecimal(8, 10)),
            Rule(LabeledLine("Client Name"), FromDecimal(8, 10)),
            Rule(Cat(<<LabeledLine("First Name"),
                       Opt(Cat(<<Plus(WS), Lit("Last Name"), Star(WS), Lit(":"), Star(WS),
                                 Plus(NotNewline)>>))>>), FromDecimal(7, 10))>>,
         unlabeled |-> <<
            Rule(Cat(<<WordBoundary, In(Upper), Plus(In(Lower)),
                       Rep(Cat(<<Plus(WS), In(Upper), Plus(In(Lower))>>), 1, 3, TRUE),
                       WordBoundary>>), FromDecimal(4, 10))>>],
     phone |->
        [labeled |-> <<
            Rule(LabeledPhone(Lit("Phone")), FromDecimal(9, 10)),
            Rule(LabeledPhone(Lit("Contact")), FromDecimal(8, 10)),
            Rule(LabeledPhone(Cat(<<Lit("Tel"), Opt(Lit("ephone"))>>)), FromDecimal(8, 10)),
            Rule(LabeledPhone(Lit("Mobile")), FromDecimal(8, 10)),
            Rule(LabeledPhone(Lit("Phone Number")), FromDecimal(9, 10))>>,
         unlabeled |-> <<
            Rule(Cat(<<WordBoundary,
                       Opt(Cat(<<Lit("+"), Rep(D, 1, 3, TRUE), Opt(Sep)>>)),
                       Opt(Lit("(")), Times(D, 3), Opt(Lit(")")), Opt(Sep),
                       Times(D, 3), Opt(Sep), Times(D, 4), WordBoundary>>), FromDecimal(6, 10)),
            Rule(Cat(<<WordBoundary>> \o DigitGroups \o <<WordBoundary>>), FromDecimal(5, 10))>>],
     address |->
        [labeled |-> <<
            Rule(LabeledAddress("Address"), FromDecimal(9, 10)),
            Rule(LabeledAddress("Location"), FromDecimal(8, 10)),
            Rule(LabeledAddress("Residence"), FromDecimal(8, 10)),
            Rule(LabeledAddress("Mailing Address"), FromDecimal(9, 10))>>,
         unlabeled |-> <<
            Rule(Cat(StreetPhrase \o
                     <<Star(WS), Lit(","), Star(WS), Plus(In(Upper \cup Lower \cup Space)),
                       Lit(","), Star(WS), Times(In(Upper), 2), Plus(WS), Times(D, 5),
                       WordBoundary>>), FromDecimal(7, 10)),
            Rule(Cat(StreetPhrase), FromDecimal(5, 10))>>]]

(***************************************************************************)
(* The validators                                                          *)
(***************************************************************************)
Bonus(confidence, cond, tenths) ==
    IF cond THEN FAdd(confidence, FromDecimal(tenths, 10)) ELSE confidence

_validate_name(name) ==
    IF name = "" THEN FZero
    ELSE LET words == Split(name)
             c0 == FromDecimal(5, 10)
             c1 == Bonus(c0, 2 <= Len(words) /\ Len(words) <= 4, 2)
             c2 == Bonus(c1, \A i \in 1..Len(words) : Char(words[i], 1) \in Upper, 2)
             c3 == Bonus(c2, ~Search(NotIn(Upper \cup Lower \cup Space \cup {"'", "-"}), NoFlags, name), 1)
         IN  FMin(c3, FOne)

_validate_phone(phone) ==
    IF phone = "" THEN FZero
    ELSE LET numbers_only == DigitsOnly(phone)
             c0 == FromDecimal(5, 10)
             c1 == IF Len(numbers_only) = 10 THEN FAdd(c0, FromDecimal(3, 10))
                   ELSE IF Len(numbers_only) = 11 /\ Char(numbers_only, 1) = "1"
                        THEN FAdd(c0, FromDecimal(2, 10))
                        ELSE c0
             \* ^\+?1?\s*\(?[0-9]{3}\)?[-.\s]?[0-9]{3}[-.\s]?[0-9]{4}$
             c2 == Bonus(c1, Match(Cat(<<StringStart, Opt(Lit("+")), Opt(Lit("1")), Star(WS),
                                        Opt(Lit("(")), Times(D, 3), Opt(Lit(")")), Opt(Sep),
                                        Times(D, 3), Opt(Sep), Times(D, 4), LineEnd>>),
                                   NoFlags, phone), 2)
         IN  FMin(c2, FOne)

_validate_address(address) ==
    IF address = "" THEN FZero
    ELSE LET c0 == FromDecimal(5, 10)
             \* \d+
             c1 == Bonus(c0, Search(Plus(D), NoFlags, address), 1)
             \* (Street|Road|Avenue|Lane|Drive|Boulevard|St|Rd|Ave|Ln|Dr|Blvd)\b, re.I
             c2 == Bonus(c1, Search(Cat(<<Alt(<<Lit("Street"), Lit("Road"), Lit("Avenue"),
                                                Lit("Lane"), Lit("Drive"), Lit("Boulevard"),
                                                Lit("St"), Lit("Rd"), Lit("Ave"), Lit("Ln"),
                                                Lit("Dr"), Lit("Blvd")>>), WordBoundary>>),
                                    IgnoreCase, address), 1)
             \* \b[A-Z]{2}\s+\d{5}\b
             c3 == Bonus(c2, Search(Cat(<<WordBoundary, Times(In(Upper), 2), Plus(WS),
                                         Times(D, 5), WordBoundary>>), NoFlags, address), 2)
             \* \b[A-Z][a-z]+(?:\s+[A-Z][a-z]+)*,\s*[A-Z]{2}\b
             c4 == Bonus(c3, Search(Cat(<<WordBoundary, In(Upper), Plus(In(Lower)),
                                         Star(Cat(<<Plus(WS), In(Upper), Plus(In(Lower))>>)),
                                         Lit(","), Star(WS), Times(In(Upper), 2),
                                         WordBoundary>>), NoFlags, address), 1)
             c5 == Bonus(c4, 10 <= Len(address) /\ Len(address) <= 200, 1)
         IN  FMin(c5, FOne)

Validate(field_type, value) ==
    CASE field_type = "name" -> _validate_name(value)
      [] field_type = "phone" -> _validate_phone(value)
      [] field_type = "address" -> _validate_address(value)

(***************************************************************************)
(* _find_best_match                                                        *)
(***************************************************************************)
ExtractedField(value, confidence, method, raw_matches) ==
    [value |-> value, confidence |-> confidence, method |-> method, raw_matches |-> raw_matches]

NoMatch == ExtractedField("", FZero, "none", <<>>)

\* the candidate a match object yields: group(1) of a labeled pattern,
\* group(0) of an unlabeled one, stripped
Candidate(m, tier) == Strip(IF tier = "labeled" THEN m.group1 ELSE m.group0)

\* (base_confidence + validation_confidence) / 2
Combined(base_confidence, validation_confidence) ==
    FHalf(FAdd(base_confidence, validation_confidence))

\* variants of the comparison: every candidate replaces the running best;
\* a candidate replaces it when it scores lower
BetterAlways(confidence, best) == TRUE
BetterReversed(confidence, best) == FLess(confidence, best.confidence)

\* confidence > best_match.confidence
Better(confidence, best) == FLess(best.confidence, confidence)

\* if confidence > best_match.confidence: best_match = ExtractedField(...)
Replace(best, value, confidence, method) ==
    IF Better(confidence, best)
    THEN ExtractedField(value, confidence, method, <<value>>)
    ELSE best

\* variant of the loop body without the `if not value: continue`
ConsiderEmptyToo(best, m, base_confidence, field, method) ==
    LET value == Candidate(m, method)
    IN  Replace(best, value, Combined(base_confidence, Validate(field, value)), method)

\* the body of the loop over the matches of one pattern
Consider(best, m, base_confidence, field, method) ==
    LET value == Candidate(m, method)
    IN  IF value = "" THEN best
        ELSE Replace(best, value, Combined(base_confidence, Validate(field, value)), method)

\* variants of the gate: no gate at all; a gate at 0.7
AlwaysTryUnlabeled(best) == TRUE
NoGoodLabeledMatchBelow07(best) == FLess(best.confidence, FromDecimal(7, 10))

\* best_match.confidence < 0.6: the unlabeled patterns are tried
NoGoodLabeledMatch(best) == FLess(best.confidence, FromDecimal(6, 10))

(***************************************************************************)
(* The documents and calls explored                                        *)
(***************************************************************************)
MaxPages == 2

FieldOrder == <<"name", "phone", "address">>

Raises == [raises |-> TRUE, text |-> ""]
Yields(t) == [raises |-> FALSE, text |-> t]

PageTexts ==
    {"Name: John Smith",
     "Phone: 555-123-4567",
     "Address: 123 Main Street, Springfield, IL 62704",
     "no phone here\nName: ",
     "Tel: 12\nContact: 34\nCall 555-123-4567",
     " ",
     ""}

PageOutcomes == {Raises} \cup {Yields(t) : t \in PageTexts}

MinConfidences == {FromDecimal(5, 10), FromDecimal(6, 10)}

None == <<>>
Some(x) == <<x>>

\* variant of the message
NoTextErrorShort == [error |-> "Could not extract text"]
NoTextError == [error |-> "Could not extract text from PDF"]

VARIABLES
    exists,          \* os.path.exists(pdf_path)
    opens,           \* pdfplumber.open(pdf_path) succeeds
    pages,           \* pdf.pages: what page.extract_text() does on each page
    min_confidence,  \* the argument of process_pdf, drawn where it is first read
    pc,              \* where process_pdf is
    page_num,        \* extract_text: pages processed so far
    page_texts,      \* extract_text: the list `text`
    text,            \* process_pdf: the value extract_text returned
    field_idx,       \* process_pdf: fields matched so far
    tier,            \* _find_best_match: the tier being scanned
    rule_idx,        \* _find_best_match: the pattern being scanned
    matches,         \* _find_best_match: the matches still to come of that pattern
    best_match,      \* _find_best_match: the running best
    results,         \* process_pdf: the dict being assembled
    result,          \* the value process_pdf returned
    acquisitions,    \* how many times extract_text was entered
    raised           \* the exception that reached process_pdf's handler

vars == <<exists, opens, pages, min_confidence, pc, page_num, page_texts, text, field_idx,
          tier, rule_idx, matches, best_match, results, result, acquisitions, raised>>

inputs == <<exists, opens, pages>>
matcher == <<tier, rule_idx, matches, best_match>>

Init ==
    /\ exists \in BOOLEAN
    /\ opens \in BOOLEAN
    /\ pages \in UNION {[1..n -> PageOutcomes] : n \in 0..MaxPages}
    /\ (~exists \/ ~opens) => pages = <<>>
    /\ ~exists => ~opens
    /\ min_confidence = None
    /\ pc = "start"
    /\ page_num = 0
    /\ page_texts = <<>>
    /\ text = None
    /\ field_idx = 0
    /\ tier = "labeled"
    /\ rule_idx = 0
    /\ matches = <<>>
    /\ best_match = NoMatch
    /\ results = <<>>
    /\ result = <<>>
    /\ acquisitions = 0
    /\ raised = "none"

(***************************************************************************)
(* extract_text                                                            *)
(***************************************************************************)
\* FileNotFoundError is raised and caught by the outer handler
ExtractMissing ==
    /\ pc = "start"
    /\ ~exists
    /\ acquisitions' = acquisitions + 1
    /\ text' = None
    /\ pc' = "extracted"
    /\ UNCHANGED <<inputs, min_confidence, page_num, page_texts, field_idx, matcher, results, result, raised>>

\* pdfplumber.open raises; caught by the outer handler
ExtractOpenFails ==
    /\ pc = "start"
    /\ exists /\ ~opens
    /\ acquisitions' = acquisitions + 1
    /\ text' = None
    /\ pc' = "extracted"
    /\ UNCHANGED <<inputs, min_confidence, page_num, page_texts, field_idx, matcher, results, result, raised>>

ExtractOpen ==
    /\ pc = "start"
    /\ exists /\ opens
    /\ acquisitions' = acquisitions + 1
    /\ page_texts' = <<>>
    /\ page_num' = 0
    /\ pc' = "pages"
    /\ UNCHANGED <<inputs, min_confidence, text, field_idx, matcher, results, result, raised>>

\* one iteration of the loop over pdf.pages
\* a page that raises is logged and the loop goes on
KeepPage(page) == ~page.raises /\ page.text # ""

\* variant of the loop in which a page that raises ends the extraction
ExtractPageAborting ==
    /\ pc = "pages"
    /\ page_num < Len(pages)
    /\ LET page == pages[page_num + 1]
       IN  IF page.raises
           THEN /\ text' = None
                /\ pc' = "extracted"
                /\ UNCHANGED <<page_num, page_texts>>
           ELSE /\ page_texts' = IF page.text # "" THEN Append(page_texts, page.text) ELSE page_texts
                /\ page_num' = page_num + 1
                /\ UNCHANGED <<pc, text>>
    /\ UNCHANGED <<inputs, min_confidence, field_idx, matcher, results, result, acquisitions, raised>>

ExtractPage ==
    /\ pc = "pages"
    /\ page_num < Len(pages)
    /\ LET page == pages[page_num + 1]
       IN  page_texts' = IF KeepPage(page) THEN Append(page_texts, page.text) ELSE page_texts
    /\ page_num' = page_num + 1
    /\ UNCHANGED <<inputs, min_confidence, pc, text, field_idx, matcher, results, result, acquisitions, raised>>

ExtractReturn ==
    /\ pc = "pages"
    /\ page_num = Len(pages)
    /\ LET full_text == Join(page_texts)
       IN  text' = IF Strip(full_text) = "" THEN None ELSE Some(full_text)
    /\ pc' = "extracted"
    /\ UNCHANGED <<inputs, min_confidence, page_num, page_texts, field_idx, matcher, results, result,
                   acquisitions, raised>>

(***************************************************************************)
(* process_pdf                                                             *)
(***************************************************************************)
Returns(value) ==
    /\ result' = value
    /\ pc' = "done"

\* variant of the handler that hands back what was assembled so far
FailsWithPartial(e) ==
    /\ raised' = e
    /\ Returns(results)

\* the handler of process_pdf: {'error': str(e)}
Fails(e) ==
    /\ raised' = e
    /\ Returns([error |-> e])

NoText ==
    /\ pc = "extracted"
    /\ text = None
    /\ Returns(NoTextError)
    /\ UNCHANGED <<inputs, min_confidence, page_num, page_texts, text, field_idx, matcher, results,
                   acquisitions, raised>>

\* the next field of the loop: _find_best_match is entered
FieldBegin ==
    /\ pc = "extracted"
    /\ text # None
    /\ field_idx < Len(FieldOrder)
    /\ best_match' = NoMatch
    /\ tier' = "labeled"
    /\ rule_idx' = 0
    /\ matches' = <<>>
    /\ pc' = "scan"
    /\ UNCHANGED <<inputs, min_confidence, page_num, page_texts, text, field_idx, results, result,
                   acquisitions, raised>>

field_type == FieldOrder[field_idx + 1]
Rules == patterns[field_type][tier]

\* the next pattern of the tier: re.finditer
NextPattern ==
    /\ pc = "scan"
    /\ matches = <<>>
    /\ rule_idx < Len(Rules)
    /\ rule_idx' = rule_idx + 1
    /\ matches' = FindIter(Rules[rule_idx + 1].pattern, IgnoreCaseMultiline, text[1])
    /\ UNCHANGED <<inputs, min_confidence, pc, page_num, page_texts, text, field_idx, tier, best_match,
                   results, result, acquisitions, raised>>

NextMatch ==
    /\ pc = "scan"
    /\ matches # <<>>
    /\ best_match' = Consider(best_match, Head(matches), Rules[rule_idx].base_confidence,
                              field_type, tier)
    /\ matches' = Tail(matches)
    /\ UNCHANGED <<inputs, min_confidence, pc, page_num, page_texts, text, field_idx, tier, rule_idx,
                   results, result, acquisitions, raised>>

\* the validator call raises: nothing in _find_best_match catches it
ValidatorRaises ==
    /\ pc = "scan"
    /\ matches # <<>>
    /\ Candidate(Head(matches), tier) # ""
    /\ Fails("validator failed")
    /\ UNCHANGED <<inputs, min_confidence, page_num, page_texts, text, field_idx, matcher, results, acquisitions>>

\* return best_match; process_pdf stores the rounded record
FieldReturn ==
    /\ results' = results @@ (field_type :> [value |-> best_match.value,
                                             confidence |-> Round2(best_match.confidence),
                                             method |-> best_match.method])
    /\ field_idx' = field_idx + 1
    /\ pc' = "extracted"
    /\ UNCHANGED <<inputs, min_confidence, page_num, page_texts, text, matcher, result, acquisitions, raised>>

\* the labeled tier is exhausted
LabeledDone ==
    /\ pc = "scan"
    /\ tier = "labeled"
    /\ matches = <<>>
    /\ rule_idx = Len(Rules)
    /\ IF NoGoodLabeledMatch(best_match)
       THEN /\ tier' = "unlabeled"
            /\ rule_idx' = 0
            /\ UNCHANGED <<inputs, min_confidence, pc, page_num, page_texts, text, field_idx, matches,
                           best_match, results, result, acquisitions, raised>>
       ELSE FieldReturn

UnlabeledDone ==
    /\ pc = "scan"
    /\ tier = "unlabeled"
    /\ matches = <<>>
    /\ rule_idx = Len(Rules)
    /\ FieldReturn

\* variant with > in place of >=
ExtractionSuccessfulStrict(res, threshold) ==
    \E k \in DOMAIN res :
        /\ "confidence" \in DOMAIN res[k]
        /\ FLess(threshold, res[k].confidence)

\* any(result['confidence'] >= min_confidence for result in results.values() ...)
ExtractionSuccessful(res, threshold) ==
    \E k \in DOMAIN res :
        /\ "confidence" \in DOMAIN res[k]
        /\ ~FLess(res[k].confidence, threshold)

Metadata ==
    /\ pc = "extracted"
    /\ text # None
    /\ field_idx = Len(FieldOrder)
    /\ \E threshold \in MinConfidences :
            /\ min_confidence' = threshold
            /\ Returns(results @@ ("metadata" :>
                    [timestamp |-> "now", file_name |-> "basename", file_size |-> "size",
                     extraction_successful |-> ExtractionSuccessful(results, threshold)]))
    /\ UNCHANGED <<inputs, page_num, page_texts, text, field_idx, matcher, results,
                   acquisitions, raised>>

\* os.path.getsize raises (the file went away)
GetSizeFails ==
    /\ pc = "extracted"
    /\ text # None
    /\ field_idx = Len(FieldOrder)
    /\ Fails("getsize failed")
    /\ UNCHANGED <<inputs, min_confidence, page_num, page_texts, text, field_idx, matcher, results, acquisitions>>

Next ==
    \/ ExtractMissing
    \/ ExtractOpenFails
    \/ ExtractOpen
    \/ ExtractPage
    \/ ExtractReturn
    \/ NoText
    \/ FieldBegin
    \/ NextPattern
    \/ NextMatch
    \/ ValidatorRaises
    \/ LabeledDone
    \/ UnlabeledDone
    \/ Metadata
    \/ GetSizeFails

Spec == Init /\ [][Next]_vars

(***************************************************************************)
(* Reference definitions for the properties                                *)
(***************************************************************************)
\* _find_best_match has just returned best_match for ReturnedField
Returned == pc = "extracted" /\ field_idx >= 1
ReturnedField == FieldOrder[field_idx]

FLeq(a, b) == ~FLess(b, a)

\* the non-empty candidates of pattern i of a tier, each with its combined
\* score, in the order finditer yields them
RuleCandidates(txt, field, method, i) ==
    LET rule == patterns[field][method][i]
        found == FindIter(rule.pattern, IgnoreCaseMultiline, txt)
        IsCandidate(m) == Candidate(m, method) # ""
        kept == SelectSeq(found, IsCandidate)
    IN  <<>> \o [k \in 1..Len(kept) |->
                    LET value == Candidate(kept[k], method)
                    IN  [value |-> value,
                         confidence |-> Combined(rule.base_confidence, Validate(field, value)),
                         method |-> method]]

RECURSIVE TierCandidatesFrom(_, _, _, _)
TierCandidatesFrom(txt, field, method, i) ==
    IF i > Len(patterns[field][method]) THEN <<>>
    ELSE <<RuleCandidates(txt, field, method, i)>> \o TierCandidatesFrom(txt, field, method, i + 1)

\* per pattern of the tier, its candidates
TierCandidates(txt, field, method) == TierCandidatesFrom(txt, field, method, 1)

AsSet(byRule) == UNION {{byRule[i][k] : k \in 1..Len(byRule[i])} : i \in 1..Len(byRule)}

Top(cands) == CHOOSE c \in cands : \A d \in cands : FLeq(d.confidence, c.confidence)

Threshold == FromDecimal(6, 10)

\* the scan replayed with the patterns of each tier taken in the given order
RECURSIVE ScanRule(_, _, _)
ScanRule(best, cands, k) ==
    IF k > Len(cands) THEN best
    ELSE ScanRule(Replace(best, cands[k].value, cands[k].confidence, cands[k].method), cands, k + 1)

RECURSIVE ScanTier(_, _, _, _)
ScanTier(best, byRule, order, j) ==
    IF j > Len(order) THEN best
    ELSE ScanTier(ScanRule(best, byRule[order[j]], 1), byRule, order, j + 1)

Replay(labeled, unlabeled, labeledOrder, unlabeledOrder) ==
    LET afterLabeled == ScanTier(NoMatch, labeled, labeledOrder, 1)
    IN  IF NoGoodLabeledMatch(afterLabeled)
        THEN ScanTier(afterLabeled, unlabeled, unlabeledOrder, 1)
        ELSE afterLabeled

Identity(n) == [i \in 1..n |-> i]
PermutationsOf(n) == Permutations(1..n)

\* the results of every reordering of one tier of the field, given the
\* candidates of each pattern
Reordered(field, labeled, unlabeled) ==
    LET nl == Len(patterns[field]["labeled"])
        nu == Len(patterns[field]["unlabeled"])
    IN  {Replay(labeled, unlabeled, p, Identity(nu)) : p \in PermutationsOf(nl)}
        \cup {Replay(labeled, unlabeled, Identity(nl), p) : p \in PermutationsOf(nu)}

(***************************************************************************)
(* Properties                                                              *)
(***************************************************************************)
TypeOK ==
    /\ pc \in {"start", "pages", "extracted", "scan", "done"}
    /\ field_idx \in 0..3

\* the stepwise scan and its replay in declaration order agree
ReplayAgrees ==
    Returned =>
        LET labeled == TierCandidates(text[1], ReturnedField, "labeled")
            unlabeled == TierCandidates(text[1], ReturnedField, "unlabeled")
        IN  best_match = Replay(labeled, unlabeled, Identity(Len(labeled)), Identity(Len(unlabeled)))

\* C1: at every point of the scan and at return, the running best has a
\* confidence within [0,1], and its method is 'none' exactly when its value
\* is empty and its confidence is 0.0 (the three are zero together).
C1_BestMatchWellFormed ==
    /\ FLeq(FZero, best_match.confidence)
    /\ FLeq(best_match.confidence, FOne)
    /\ best_match.method = "none" <=> (best_match.value = "" /\ best_match.confidence = FZero)
    /\ best_match.method = "none" <=> best_match.value = ""

C1_Witness ==
    /\ pc = "scan"
    /\ best_match.method = "unlabeled"
    /\ matches # <<>>

LabeledFound == AsSet(TierCandidates(text[1], ReturnedField, "labeled"))
UnlabeledFound == AsSet(TierCandidates(text[1], ReturnedField, "unlabeled"))

\* the candidates of the tiers the scan goes through
Scanned(L, U) == L \cup (IF \A c \in L : FLess(c.confidence, Threshold) THEN U ELSE {})

GoodLabeled(L) == L # {} /\ FLeq(Threshold, Top(L).confidence)

HigherUnlabeled(L, U) == \E u \in U : FLess(Top(L).confidence, u.confidence)

\* C2 as stated: with a labeled match scoring >= 0.6, an unlabeled match
\* never replaces it with a lower score, and an unlabeled match that scores
\* strictly higher does replace it: the returned field is then the best
\* unlabeled candidate, with method 'unlabeled'.
C2_HigherUnlabeledReplaces ==
    Returned =>
        LET L == LabeledFound
            U == UnlabeledFound
        IN  GoodLabeled(L) =>
                /\ best_match.method = "unlabeled" =>
                        FLess(Top(L).confidence, best_match.confidence)
                /\ HigherUnlabeled(L, U) =>
                        /\ best_match.method = "unlabeled"
                        /\ best_match.confidence = Top(U).confidence

\* C2 amended: with a labeled match scoring >= 0.6 no unlabeled match
\* replaces it, whatever its score: the returned field is the best labeled
\* candidate, with method 'labeled'.
C2_GoodLabeledIsFinal ==
    Returned =>
        LET L == LabeledFound
        IN  GoodLabeled(L) =>
                /\ best_match.method = "labeled"
                /\ best_match.confidence = Top(L).confidence
                /\ \E c \in L : c.value = best_match.value

C2_Witness ==
    /\ Returned
    /\ LET L == LabeledFound
       IN  GoodLabeled(L) /\ HigherUnlabeled(L, UnlabeledFound)

FieldNames == {"name", "phone", "address"}

Structured == DOMAIN result \in {{"error"}, {"name", "phone", "address", "metadata"}}

\* some step of the call can be taken
CanStep == IF pc = "scan" THEN rule_idx <= Len(Rules) ELSE ENABLED Next

RECURSIVE TotalLen(_, _)
TotalLen(ps, i) == IF i > Len(ps) THEN 0 ELSE Len(ps[i].text) + 1 + TotalLen(ps, i + 1)

\* an upper bound on the number of steps the call still takes
MostMatches == TotalLen(pages, 1) + 1
TierCost == 5 * (1 + MostMatches) + 1
FieldCost == 1 + 2 * TierCost
Remaining ==
    CASE pc = "done" -> 0
      [] pc = "extracted" -> 1 + (Len(FieldOrder) - field_idx) * FieldCost
      [] pc = "scan" ->
            Len(matches) + (Len(Rules) - rule_idx) * (1 + MostMatches) + 1
            + (IF tier = "labeled" THEN TierCost ELSE 0)
            + 1 + (Len(FieldOrder) - field_idx - 1) * FieldCost
      [] pc = "pages" -> (Len(pages) - page_num) + 2 + Len(FieldOrder) * FieldCost
      [] pc = "start" -> Len(pages) + 3 + Len(FieldOrder) * FieldCost

\* C4: a call of process_pdf never gets stuck and never runs for ever, a
\* failure takes it straight to its return, and what it returns is either
\* a complete result (name, phone, address, metadata) or {error: message},
\* never a partially assembled result.
C4_AlwaysStructuredResponse ==
    /\ [](pc = "done" => Structured)
    /\ [](pc # "done" => CanStep)
    /\ [][Remaining' < Remaining]_vars
    /\ [][raised' # raised => (pc' = "done" /\ DOMAIN result' = {"error"})]_vars

C4_Witness ==
    /\ pc = "done"
    /\ raised = "getsize failed"
    /\ DOMAIN results = FieldNames

\* C5: when extract_text returns None, process_pdf returns exactly
\* {error: "Could not extract text from PDF"}, no field was matched, no
\* result key was assembled, and extract_text was entered once.
C5_NoTextIsTerminalError ==
    (pc \in {"extracted", "done"} /\ text = None) =>
        /\ pc = "done" => result = [error |-> "Could not extract text from PDF"]
        /\ results = <<>>
        /\ field_idx = 0 /\ rule_idx = 0 /\ matches = <<>> /\ best_match = NoMatch
        /\ acquisitions = 1

C5_Witness ==
    /\ pc = "done"
    /\ text = None
    /\ exists /\ opens
    /\ Len(pages) >= 1

\* C6 as stated: a failure of a validator call never leaves
\* _find_best_match, so it never reaches the handler of process_pdf.
C6_ValidatorFailureContained == raised # "validator failed"

TopTie(S) ==
    \E c, d \in S :
        /\ c.method = best_match.method /\ d.method = best_match.method
        /\ c.confidence = best_match.confidence /\ d.confidence = best_match.confidence
        /\ c.value # d.value

\* C7 as stated: reordering the patterns of a tier leaves value, confidence
\* and method of the returned field unchanged.
C7_OrderIrrelevant ==
    Returned =>
        LET labeled == TierCandidates(text[1], ReturnedField, "labeled")
            unlabeled == TierCandidates(text[1], ReturnedField, "unlabeled")
        IN  \A r \in Reordered(ReturnedField, labeled, unlabeled) :
                /\ r.value = best_match.value
                /\ r.confidence = best_match.confidence
                /\ r.method = best_match.method

\* C7 amended: reordering the patterns of a tier leaves confidence and
\* method unchanged, and leaves the value unchanged unless candidates with
\* different values tie for the best score of the winning tier.
C7_OrderIrrelevantUpToTies ==
    Returned =>
        LET labeled == TierCandidates(text[1], ReturnedField, "labeled")
            unlabeled == TierCandidates(text[1], ReturnedField, "unlabeled")
            tie == TopTie(Scanned(AsSet(labeled), AsSet(unlabeled)))
        IN  \A r \in Reordered(ReturnedField, labeled, unlabeled) :
                /\ r.confidence = best_match.confidence
                /\ r.method = best_match.method
                /\ ~tie => r.value = best_match.value

C7_Witness ==
    /\ Returned
    /\ LET labeled == TierCandidates(text[1], ReturnedField, "labeled")
           unlabeled == TierCandidates(text[1], ReturnedField, "unlabeled")
       IN  /\ TopTie(Scanned(AsSet(labeled), AsSet(unlabeled)))
           /\ \E r \in Reordered(ReturnedField, labeled, unlabeled) : r.value # best_match.value

Scenario(txt, field, value) ==
    (text[1] = txt /\ ReturnedField = field) =>
        best_match = ExtractedField(value, FromDecimal(95, 100), "labeled", <<value>>)

\* C8: the returned confidence is the maximum combined score over the
\* non-empty candidates of the tiers scanned, value and method are those of
\* a candidate attaining it, an empty capture is never returned, and
\* Scenarios A, B and C give 0.95 with method 'labeled'.
C8_BestIsMaximum ==
    Returned =>
        LET S == Scanned(LabeledFound, UnlabeledFound)
        IN  /\ S = {} => best_match = NoMatch
            /\ S # {} =>
                    /\ best_match.confidence = Top(S).confidence
                    /\ \E c \in S :
                            /\ c.value = best_match.value
                            /\ c.confidence = best_match.confidence
                            /\ c.method = best_match.method
                    /\ best_match.value # ""
            /\ Scenario("Name: John Smith", "name", "John Smith")
            /\ Scenario("Phone: 555-123-4567", "phone", "555-123-4567")
            /\ Scenario("Address: 123 Main Street, Springfield, IL 62704", "address",
                        "123 Main Street, Springfield, IL 62704")

C8_Witness ==
    /\ Returned
    /\ best_match.method = "labeled"
    /\ Cardinality({c.confidence : c \in Scanned(LabeledFound, UnlabeledFound)}) >= 2

\* C9: extract_text goes through every page, and returns the texts of the
\* pages that yielded non-empty text joined by newlines in page order, or
\* None exactly when that is blank or the file is missing or cannot be
\* opened.
C9_ExtractTextToleratesPages ==
    pc \notin {"start", "pages"} =>
        LET kept == SelectSeq(pages, LAMBDA p : ~p.raises /\ p.text # "")
            joined == Join([i \in 1..Len(kept) |-> kept[i].text])
        IN  /\ (exists /\ opens) => page_num = Len(pages)
            /\ text = IF ~exists \/ ~opens \/ Strip(joined) = "" THEN None ELSE Some(joined)

C9_Witness ==
    /\ pc = "extracted"
    /\ text # None
    /\ \E i \in 1..(Len(pages) - 1) : pages[i].raises /\ ~pages[i + 1].raises

====
